---- MODULE Spec2Model ----
\* Member balance ledger, OTP-gated fund transfer, refill and refund of the
\* kiosk application, as a state machine over the database rows and the
\* request handlers' in-memory copies of them.  Amounts are integer cents.
EXTENDS Integers, Sequences, FiniteSets, TLC

\* ---------------------------------------------------------------- bounds
MaxOtps == 2
MaxLedger == 5
MaxTime == 20
TickStep == 10
MaxBalance == 3
MaxStock == 4

\* ------------------------------------------------------ program constants
OtpValidMinutes == 10

\* ------------------------------------------------------------- universes
Workers == {"w1", "w2"}
Members == {"A", "B", "C"}
NoMember == "none"
\* holder of a row that no open transaction has written
NoLock == "free"
Codes == {"c1", "c2"}
Sales == {"S1", "S2", "S3"}
\* the sales with a total above zero
PaidSales == {"S1", "S2"}
Products == {"P1", "P2"}
\* Transaction.status values
TxStatuses == {"pending", "completed", "cancelled"}

\* rfid_card_number of each member row; "rX" belongs to nobody
RfidOf == [m \in Members |-> "r" \o m]
\* Member.email: B has no contact address
HasEmail == [m \in Members |-> m # "B"]
InitBalance == [m \in Members |-> CASE m = "A" -> 2 [] OTHER -> 1]

\* Transaction rows (completed sales) with their line items: S1 is a sale to
\* member B with one line item, S2 a guest sale with two
SaleMember == [s \in Sales |-> IF s = "S2" THEN NoMember ELSE "B"]
SaleTotal == [s \in Sales |-> IF s = "S3" THEN 0 ELSE 1]
SaleItems ==
    [s \in Sales |->
        IF s # "S2" THEN <<[product |-> "P1", quantity |-> 1]>>
        ELSE <<[product |-> "P1", quantity |-> 1], [product |-> "P2", quantity |-> 2]>>]
InitStock == [p \in Products |-> 0]

NoOtp == [id |-> 0, member |-> NoMember, recipient_rfid |-> "rX", amount |-> 0,
          otp_code |-> "c1", created_at |-> 0, expires_at |-> 0,
          is_used |-> FALSE, verified_at |-> -1]

\* Member.email
EmailOf == [m \in Members \cup {NoMember} |->
               IF m \in Members /\ HasEmail[m] THEN m \o "@mail" ELSE ""]

\* 'expires_in' of the OTP response, seconds
ExpiresIn == 600

\* a response body other than the OTP-sent body
NoBody == [success |-> FALSE, message |-> "", expires_in |-> 0]

IdleLocal == [op |-> "none", member |-> NoMember, mbal |-> 0, rfid |-> "rX",
              amount |-> 0, code |-> "c1", otp |-> NoOtp,
              recipient |-> NoMember, rbal |-> 0, before |-> 0,
              sale |-> "S1", idx |-> 1, body |-> NoBody, role |-> "none"]

VARIABLES
    balance,           \* Member.balance column
    is_active,         \* Member.is_active column
    last_transaction,  \* Member.last_transaction column (-1 = NULL)
    otps,              \* FundTransferOTP rows
    nextOtpId,         \* FundTransferOTP primary-key sequence
    ledger,            \* BalanceTransaction rows in commit order
    txStatus,          \* Transaction.status column
    txNotes,           \* Transaction.notes column
    stock,             \* Product.stock_quantity column
    rowLock,           \* Member rows write-locked by an open transaction
    now,               \* timezone.now(), minutes
    pc,                \* position of each request handler
    loc,               \* in-memory objects of each request handler
    result             \* response of each handler's last request

dbvars == <<balance, is_active, last_transaction, otps, nextOtpId, ledger, txStatus, txNotes,
           stock, rowLock>>
vars == <<balance, is_active, last_transaction, otps, nextOtpId, ledger, txStatus, txNotes, stock,
          rowLock,
          now, pc, loc, result>>

Free(p) == pc[p] \in {"idle", "done"}

\* the response is returned and the handler's in-memory objects are dropped;
\* the request it answered (kind, member, submitted code, transaction id) and
\* the body it was answered with stay on record
\* the OTP-sent body with the generated code in its message
OtpSentBody_WithCode(l) ==
    [success |-> TRUE,
     message |-> "OTP has been sent to your email (" \o EmailOf[l.member] \o "): "
                 \o l.otp.otp_code,
     expires_in |-> ExpiresIn]

\* the body request_transfer_otp returns after create_otp and send_otp_email
OtpSentBody(l) ==
    [success |-> TRUE,
     message |-> "OTP has been sent to your email (" \o EmailOf[l.member] \o ")",
     expires_in |-> ExpiresIn]

\* the body of the response r of a handler whose in-memory objects are l
ResponseBody(l, r) ==
    IF l.op = "request" /\ r = "Success" THEN OtpSentBody(l) ELSE NoBody

Summary(l, r) ==
    [IdleLocal EXCEPT !.op = l.op, !.member = l.member, !.code = l.code, !.sale = l.sale,
                      !.body = ResponseBody(l, r)]

Finish(p, r) ==
    /\ pc' = [pc EXCEPT ![p] = "done"]
    /\ result' = [result EXCEPT ![p] = r]

Return(p, l, r) ==
    /\ Finish(p, r)
    /\ loc' = [loc EXCEPT ![p] = Summary(l, r)]

Continue(p, lbl, l) ==
    /\ pc' = [pc EXCEPT ![p] = lbl]
    /\ loc' = [loc EXCEPT ![p] = l]

Goto(p, l) ==
    /\ pc' = [pc EXCEPT ![p] = l]
    /\ UNCHANGED result

\* a new request on handler p: its previous response is gone
Enter(p, l) ==
    /\ pc' = [pc EXCEPT ![p] = l]
    /\ result' = [result EXCEPT ![p] = "none"]

Init ==
    /\ balance = InitBalance
    /\ is_active = [m \in Members |-> TRUE]
    /\ last_transaction = [m \in Members |-> -1]
    /\ otps = {}
    /\ nextOtpId = 1
    /\ ledger = <<>>
    /\ txStatus = [s \in Sales |-> "completed"]
    /\ txNotes = [s \in Sales |-> ""]
    /\ stock = InitStock
    /\ rowLock = [m \in Members |-> NoLock]
    /\ now = 0
    /\ pc = [p \in Workers |-> "idle"]
    /\ loc = [p \in Workers |-> IdleLocal]
    /\ result = [p \in Workers |-> "none"]

\* ------------------------------------------------------------------ clock
Tick ==
    /\ now + TickStep <= MaxTime
    /\ now' = now + TickStep
    /\ UNCHANGED <<rowLock, dbvars, pc, loc, result>>

\* ------------------------------------------------- account resolution
\* Member.objects.get(rfid_card_number=rfid, is_active=True)
ResolveByRfid(rfid, act) ==
    {m \in Members : RfidOf[m] = rfid /\ act[m]}

\* ----------------------------------------------------- FundTransferOTP
\* is_valid without the expiry comparison
is_valid_NoExpiry(o, t) == ~o.is_used

\* FundTransferOTP.is_valid on an in-memory row
is_valid(o, t) ==
    IF o.is_used THEN FALSE
    ELSE IF t > o.expires_at THEN FALSE
    ELSE TRUE

\* cls.objects.filter(member=member, is_used=False).delete()
DeleteUnused(rows, m) ==
    {o \in rows : ~(o.member = m /\ ~o.is_used)}

\* the row cls.objects.create(...) inserts
NewOtp(id, m, rfid, a, c, t) ==
    [id |-> id, member |-> m, recipient_rfid |-> rfid, amount |-> a,
     otp_code |-> c, created_at |-> t, expires_at |-> t + OtpValidMinutes,
     is_used |-> FALSE, verified_at |-> -1]

\* the lookup without the is_used=False filter
UnusedMatches_AnyUse(rows, m, c) ==
    {o \in rows : o.member = m /\ o.otp_code = c}

\* FundTransferOTP.objects.get(member=, otp_code=, is_used=False) candidates
UnusedMatches(rows, m, c) ==
    {o \in rows : o.member = m /\ o.otp_code = c /\ ~o.is_used}

\* mark_as_used: UPDATE ... SET is_used, verified_at WHERE id = o.id
MarkUsedRows(rows, o, t) ==
    {IF r.id = o.id THEN [r EXCEPT !.is_used = TRUE, !.verified_at = t] ELSE r : r \in rows}

\* an UPDATE by id that takes a missing row for a written one
RowExists_Unchecked(rows, o) == TRUE

\* save(update_fields=...) raises when its UPDATE matches no row
RowExists(rows, o) == \E r \in rows : r.id = o.id

\* ------------------------------------------------------ BalanceTransaction
Entry(m, kind, a, before, after, note) ==
    [member |-> m, transaction_type |-> kind, amount |-> a,
     balance_before |-> before, balance_after |-> after, notes |-> note]

\* ------------------------------------------------- request_transfer_otp
\* get_member_from_request, then the amount, balance and email validations
RequestStart(p, m, rfid, a) ==
    /\ Free(p)
    /\ LET l == [IdleLocal EXCEPT !.op = "request", !.member = m, !.mbal = balance[m],
                                  !.rfid = rfid, !.amount = a]
       IN  IF ~is_active[m] THEN Return(p, l, "AuthRequired")
           ELSE IF a <= 0 THEN Return(p, l, "InvalidAmount")
           ELSE IF l.mbal < a THEN Return(p, l, "InsufficientBalance")
           ELSE IF ~HasEmail[m] THEN Return(p, l, "MissingContact")
           ELSE Enter(p, "r_recipient") /\ loc' = [loc EXCEPT ![p] = l]
    /\ UNCHANGED <<dbvars, now>>

\* the recipient checks made after the sender's unused intents were deleted
RequestRecipient_DeleteFirst(p) ==
    /\ pc[p] = "r_recipient"
    /\ otps' = DeleteUnused(otps, loc[p].member)
    /\ LET found == ResolveByRfid(loc[p].rfid, is_active) IN
       IF found = {} THEN Return(p, loc[p], "RecipientNotFound")
       ELSE LET r == CHOOSE x \in found : TRUE IN
            IF r = loc[p].member THEN Return(p, loc[p], "SelfTransfer")
            ELSE Continue(p, "r_delete", [loc[p] EXCEPT !.recipient = r]) /\ UNCHANGED result
    /\ UNCHANGED <<rowLock, balance, is_active, last_transaction, nextOtpId, ledger, txStatus, txNotes,
                   stock, now>>

\* recipient lookup and the self-transfer check
RequestRecipient(p) ==
    /\ pc[p] = "r_recipient"
    /\ LET found == ResolveByRfid(loc[p].rfid, is_active) IN
       IF found = {} THEN Return(p, loc[p], "RecipientNotFound")
       ELSE LET r == CHOOSE x \in found : TRUE IN
            IF r = loc[p].member THEN Return(p, loc[p], "SelfTransfer")
            ELSE Continue(p, "r_delete", [loc[p] EXCEPT !.recipient = r]) /\ UNCHANGED result
    /\ UNCHANGED <<dbvars, now>>

\* create_otp, first statement: delete the sender's unused rows
RequestDelete(p) ==
    /\ pc[p] = "r_delete"
    /\ otps' = DeleteUnused(otps, loc[p].member)
    /\ Goto(p, "r_create")
    /\ UNCHANGED <<rowLock, balance, is_active, last_transaction, nextOtpId, ledger, txStatus, txNotes, stock,
                   now, loc>>

\* ----------------------------------------------------------- email_utils
\* what becomes of an email handed to send_email_async: "sent" by the
\* background thread, "lost" after its retries (the thread logs and ends), or
\* "raised": the call itself raises before the thread runs
Dispatches == {"sent", "lost", "raised"}

\* send_otp_email inside the try block of request_transfer_otp: an exception
\* reaches "except Exception" and the answer is 500 'Failed to create OTP'
OtpDispatchResponse(d) == IF d = "raised" THEN "ServerError" ELSE "Success"

\* send_transfer_completion_emails inside its own try/except: the exception
\* is logged and the success response follows
CompletionDispatchResponse(d) == "Success"

\* create_otp, rest: generate the code, insert the row; then send_otp_email
\* with outcome d and the response
RequestCreate(p, c, d) ==
    /\ pc[p] = "r_create"
    /\ nextOtpId <= MaxOtps
    /\ LET o == NewOtp(nextOtpId, loc[p].member, loc[p].rfid, loc[p].amount, c, now) IN
       /\ otps' = otps \cup {o}
       /\ Return(p, [loc[p] EXCEPT !.otp = o], OtpDispatchResponse(d))
    /\ nextOtpId' = nextOtpId + 1
    /\ UNCHANGED <<rowLock, balance, is_active, last_transaction, ledger, txStatus, txNotes, stock, now>>

\* --------------------------------------------------- verify_transfer_otp
\* get_member_from_request: the sender row is read here, once
VerifyStart(p, m, c) ==
    /\ Free(p)
    /\ LET l == [IdleLocal EXCEPT !.op = "verify", !.member = m, !.mbal = balance[m],
                                  !.code = c]
       IN  IF ~is_active[m] THEN Return(p, l, "AuthRequired")
           ELSE Enter(p, "v_lookup") /\ loc' = [loc EXCEPT ![p] = l]
    /\ UNCHANGED <<dbvars, now>>

\* the balance check rejecting a balance equal to the amount as well
InsufficientFor_OrEqual(bal, a) == bal <= a

\* if member.balance < amount: 'Insufficient balance'
InsufficientFor(bal, a) == bal < a

\* FundTransferOTP.objects.get(member, otp_code, is_used=False), then
\* otp.is_valid() and the balance re-check on the in-memory sender
VerifyLookup(p) ==
    /\ pc[p] = "v_lookup"
    /\ LET found == UnusedMatches(otps, loc[p].member, loc[p].code) IN
       IF found = {} THEN Return(p, loc[p], "OtpNotFound")
       ELSE IF Cardinality(found) > 1 THEN Return(p, loc[p], "ServerError")
       ELSE LET o == CHOOSE x \in found : TRUE IN
            IF ~is_valid(o, now) THEN Return(p, loc[p], "OtpExpired")
            ELSE IF InsufficientFor(loc[p].mbal, o.amount)
                 THEN Return(p, loc[p], "InsufficientBalance")
            ELSE Continue(p, "v_recipient", [loc[p] EXCEPT !.otp = o]) /\ UNCHANGED result
    /\ UNCHANGED <<dbvars, now>>

\* recipient lookup by the stored card id, and the self-transfer check
VerifyRecipient(p) ==
    /\ pc[p] = "v_recipient"
    /\ LET found == ResolveByRfid(loc[p].otp.recipient_rfid, is_active) IN
       IF found = {} THEN Return(p, loc[p], "RecipientNotFound")
       ELSE LET r == CHOOSE x \in found : TRUE IN
            IF r = loc[p].member THEN Return(p, loc[p], "SelfTransfer")
            ELSE Continue(p, "v_atomic", [loc[p] EXCEPT !.recipient = r, !.rbal = balance[r]])
                 /\ UNCHANGED result
    /\ UNCHANGED <<dbvars, now>>

\* The statements of the atomic block, numbered as they run:
\*   1 mark OTP used, 2 sender balance write, 3 sender ledger entry,
\*   4 recipient balance write, 5 recipient ledger entry, 6 last-activity stamps
TransferSteps == 6
FailPoints == 0 .. TransferSteps

TransferStep(D, k, l, t) ==
    LET m == l.member
        r == l.recipient
        a == l.otp.amount
    IN  CASE k = 1 -> [D EXCEPT !.otps = MarkUsedRows(D.otps, l.otp, t)]
          [] k = 2 -> [D EXCEPT !.balance[m] = l.mbal - a]
          [] k = 3 -> [D EXCEPT !.ledger = Append(D.ledger,
                          Entry(m, "deduction", a, l.mbal, D.balance[m], "transfer_out"))]
          [] k = 4 -> [D EXCEPT !.balance[r] = l.rbal + a]
          [] k = 5 -> [D EXCEPT !.ledger = Append(D.ledger,
                          Entry(r, "deposit", a, l.rbal, D.balance[r], "transfer_in"))]
          [] OTHER -> [D EXCEPT !.last_transaction[m] = t, !.last_transaction[r] = t]

RECURSIVE TransferPrefix(_, _, _, _)
TransferPrefix(D, k, l, t) ==
    IF k = 0 THEN D ELSE TransferStep(TransferPrefix(D, k - 1, l, t), k, l, t)

\* the block without a transaction around it: writes made before the
\* exception stay
AtomicOutcome_NoRollback(pre, written, failed) == written

\* with db_transaction.atomic(): an exception inside discards every write
AtomicOutcome(pre, written, failed) == IF failed THEN pre ELSE written

\* the step at which the block raises: an injected storage failure f, or
\* mark_as_used updating a row that no longer exists
FailedAt(f, rows, o) ==
    IF ~RowExists(rows, o) THEN 1 ELSE f

VerifyAtomic(p, f, d) ==
    /\ pc[p] = "v_atomic"
    /\ Len(ledger) + 2 <= MaxLedger
    /\ LET pre == [otps |-> otps, balance |-> balance, ledger |-> ledger,
                   last_transaction |-> last_transaction]
           k == FailedAt(f, otps, loc[p].otp)
           failed == k # 0
           written == TransferPrefix(pre, IF failed THEN k - 1 ELSE TransferSteps, loc[p], now)
           post == AtomicOutcome(pre, written, failed)
       IN  /\ otps' = post.otps
           /\ balance' = post.balance
           /\ ledger' = post.ledger
           /\ last_transaction' = post.last_transaction
           /\ Return(p, loc[p], IF failed THEN "ServerError"
                                 ELSE CompletionDispatchResponse(d))
    /\ UNCHANGED <<rowLock, is_active, nextOtpId, txStatus, txNotes, stock, now>>

\* The same block on a storage engine that write-locks a row at its first
\* UPDATE and keeps the lock until the transaction ends.  The handler names
\* no lock and no order: the rows are locked in the order the block writes
\* them, the sender's at member.save(), the recipient's at recipient.save().
Holds(p, m) == rowLock[m] = p
Available(p, m) == rowLock[m] \in {NoLock, p}
Release(p) == [m \in Members |-> IF rowLock[m] = p THEN NoLock ELSE rowLock[m]]

\* the order in which the block takes the two account rows: by role
LockOrder(l) == <<l.member, l.recipient>>

\* otp.mark_as_used(), then the first balance write: waits while another
\* open transaction holds the row
VerifyWriteSender(p) ==
    /\ pc[p] = "v_atomic"
    /\ IF ~RowExists(otps, loc[p].otp)
       THEN Return(p, loc[p], "ServerError") /\ UNCHANGED rowLock
       ELSE /\ Available(p, LockOrder(loc[p])[1])
            /\ rowLock' = [rowLock EXCEPT ![LockOrder(loc[p])[1]] = p]
            /\ Goto(p, "v_held")
            /\ UNCHANGED loc
    /\ UNCHANGED <<balance, is_active, last_transaction, otps, nextOtpId, ledger, txStatus,
                   txNotes, stock, now>>

\* the second balance write: waits while another open transaction holds
\* the row
VerifyWriteRecipient(p) ==
    /\ pc[p] = "v_held"
    /\ Available(p, LockOrder(loc[p])[2])
    /\ rowLock' = [rowLock EXCEPT ![LockOrder(loc[p])[2]] = p]
    /\ Goto(p, "v_commit")
    /\ UNCHANGED <<balance, is_active, last_transaction, otps, nextOtpId, ledger, txStatus,
                   txNotes, stock, now, loc>>

\* leaving the block commits its writes and releases its row locks
VerifyCommit(p, d) ==
    /\ pc[p] = "v_commit"
    /\ Len(ledger) + 2 <= MaxLedger
    /\ LET pre == [otps |-> otps, balance |-> balance, ledger |-> ledger,
                   last_transaction |-> last_transaction]
           post == TransferPrefix(pre, TransferSteps, loc[p], now)
       IN  /\ otps' = post.otps
           /\ balance' = post.balance
           /\ ledger' = post.ledger
           /\ last_transaction' = post.last_transaction
    /\ rowLock' = Release(p)
    /\ Return(p, loc[p], CompletionDispatchResponse(d))
    /\ UNCHANGED <<is_active, nextOtpId, txStatus, txNotes, stock, now>>

\* handler p holds one account row and waits for a row held by handler q,
\* which waits for the row p holds
CircularWait(p, q) ==
    /\ p # q
    /\ pc[p] = "v_held" /\ pc[q] = "v_held"
    /\ Holds(q, LockOrder(loc[p])[2])
    /\ Holds(p, LockOrder(loc[q])[2])

\* the engine breaks a circular wait by aborting one transaction: its
\* writes are discarded, the exception leaves the block and the outer
\* handler answers 500
VerifyDeadlockAbort(p) ==
    /\ \E q \in Workers : CircularWait(p, q)
    /\ rowLock' = Release(p)
    /\ Return(p, loc[p], "ServerError")
    /\ UNCHANGED <<balance, is_active, last_transaction, otps, nextOtpId, ledger, txStatus,
                   txNotes, stock, now>>

\* ------------------------------------------------------ Member.add_balance
\* credit the stored balance with a positive amount
add_balance(bal, m, a) == [bal EXCEPT ![m] = bal[m] + a]

\* ---------------------------------------------------- api_refill_balance
\* the roles of the logged-in user, the member ids and the amounts a refill
\* request can carry; "" is a missing or empty field
Roles == {"admin", "staff", "cashier"}
MemberIds == {"C", NoMember, ""}
RawAmounts == {"", "abc", "-1", "0", "1"}

\* Decimal(str(amount)): the number written, or InvalidOperation
ParseDecimal(raw) ==
    CASE raw = "-1" -> [ok |-> TRUE, value |-> -1]
      [] raw = "0" -> [ok |-> TRUE, value |-> 0]
      [] raw = "1" -> [ok |-> TRUE, value |-> 1]
      [] OTHER -> [ok |-> FALSE, value |-> 0]

\* the amount check letting zero through
NotPositive_Negative(a) == a < 0

\* if amount <= 0
NotPositive(a) == a <= 0

\* permission, field, amount and member checks; the member row is read here
RefillStart(p, role, mid, raw) ==
    /\ Free(p)
    /\ LET d == ParseDecimal(raw)
           l == [IdleLocal EXCEPT !.op = "refill", !.member = mid, !.role = role,
                                  !.mbal = IF mid \in Members THEN balance[mid] ELSE 0,
                                  !.amount = d.value]
       IN  IF role \notin {"admin", "staff"} THEN Return(p, l, "PermissionDenied")
           ELSE IF mid = "" THEN Return(p, l, "AccountNotFound")
           ELSE IF raw = "" THEN Return(p, l, "InvalidAmount")
           ELSE IF ~d.ok \/ NotPositive(d.value) THEN Return(p, l, "InvalidAmount")
           ELSE IF mid \notin Members \/ ~is_active[mid] THEN Return(p, l, "AccountNotFound")
           ELSE Enter(p, "f_add") /\ loc' = [loc EXCEPT ![p] = l]
    /\ UNCHANGED <<dbvars, now>>

\* balance_before = member.balance; member.add_balance(amount)
RefillAdd(p) ==
    /\ pc[p] = "f_add"
    /\ balance[loc[p].member] + loc[p].amount <= MaxBalance
    /\ balance' = add_balance(balance, loc[p].member, loc[p].amount)
    /\ loc' = [loc EXCEPT ![p].before = loc[p].mbal,
                          ![p].mbal = balance'[loc[p].member]]
    /\ Goto(p, "f_ledger")
    /\ UNCHANGED <<rowLock, is_active, last_transaction, otps, nextOtpId, ledger, txStatus, txNotes, stock, now>>

\* BalanceTransaction.objects.create(... 'deposit' ...)
RefillLedger(p) ==
    /\ pc[p] = "f_ledger"
    /\ Len(ledger) + 1 <= MaxLedger
    /\ ledger' = Append(ledger, Entry(loc[p].member, "deposit", loc[p].amount,
                                      loc[p].before, loc[p].mbal, "refill"))
    /\ Return(p, loc[p], "Success")
    /\ UNCHANGED <<rowLock, balance, is_active, last_transaction, otps, nextOtpId, txStatus, txNotes, stock, now>>

\* ---------------------------------------------------- api_process_refund
\* actor is "cashier" (full access) or a member acting for themselves
Actors == {"cashier"} \cup Members

\* the status filter without the pending case
Refundable_NotCancelled(st) == st # "cancelled"

\* the filter status='completed' of the transaction lookup
Refundable(st) == st = "completed"

\* Transaction.objects.select_related('member').get(id, status='completed'),
\* then the access-control check
RefundStart(p, s, actor) ==
    /\ Free(p)
    /\ LET m == SaleMember[s]
           l == [IdleLocal EXCEPT !.op = "refund", !.sale = s, !.member = m,
                                  !.mbal = IF m = NoMember THEN 0 ELSE balance[m],
                                  !.amount = SaleTotal[s], !.idx = 1]
       IN  IF ~Refundable(txStatus[s]) THEN Return(p, l, "NotRefundable")
           ELSE IF actor # "cashier" /\ ~is_active[actor] THEN Return(p, l, "PermissionDenied")
           ELSE IF actor # "cashier" /\ m # actor THEN Return(p, l, "PermissionDenied")
           ELSE /\ Enter(p, IF m = NoMember THEN "x_stock" ELSE "x_add")
                /\ loc' = [loc EXCEPT ![p] = l]
    /\ UNCHANGED <<dbvars, now>>

\* balance_before = member.balance; member.add_balance(transaction.total_amount)
RefundAdd(p) ==
    /\ pc[p] = "x_add"
    /\ balance[loc[p].member] + loc[p].amount <= MaxBalance
    /\ balance' = add_balance(balance, loc[p].member, loc[p].amount)
    /\ loc' = [loc EXCEPT ![p].before = loc[p].mbal,
                          ![p].mbal = balance'[loc[p].member]]
    /\ Goto(p, "x_ledger")
    /\ UNCHANGED <<rowLock, is_active, last_transaction, otps, nextOtpId, ledger, txStatus, txNotes,
                   stock, now>>

\* a statement of the handler raises: the outer "except Exception" answers
\* 'Server error'; the handler runs in no transaction, so nothing is undone
RefundRaise(p) ==
    /\ Return(p, loc[p], "ServerError")
    /\ UNCHANGED <<dbvars, now>>

\* BalanceTransaction.objects.create(... 'deposit' ... "Refund for transaction");
\* f: the insert raises
RefundLedger(p, f) ==
    /\ pc[p] = "x_ledger"
    /\ IF f THEN RefundRaise(p)
       ELSE /\ Len(ledger) + 1 <= MaxLedger
            /\ ledger' = Append(ledger, Entry(loc[p].member, "deposit", loc[p].amount,
                                              loc[p].before, loc[p].mbal, "refund"))
            /\ Goto(p, "x_stock")
            /\ UNCHANGED <<rowLock, balance, is_active, last_transaction, otps, nextOtpId, txStatus,
                           txNotes, stock, now, loc>>

\* a restock that leaves the counter as it was
Restock_Skip(st, item) == st

\* item.product.stock_quantity += item.quantity
Restock(st, item) == [st EXCEPT ![item.product] = @ + item.quantity]

\* one round of the restock loop: item.product.stock_quantity += item.quantity;
\* item.product.save(); f: the save raises
RefundStock(p, f) ==
    /\ pc[p] = "x_stock"
    /\ IF f THEN RefundRaise(p)
       ELSE LET items == SaleItems[loc[p].sale]
                i == loc[p].idx
            IN  /\ stock[items[i].product] + items[i].quantity <= MaxStock
                /\ stock' = Restock(stock, items[i])
                /\ loc' = [loc EXCEPT ![p].idx = i + 1]
                /\ Goto(p, IF i + 1 > Len(items) THEN "x_status" ELSE "x_stock")
                /\ UNCHANGED <<rowLock, balance, is_active, last_transaction, otps, nextOtpId, ledger,
                               txStatus, txNotes, now>>

\* transaction.status = 'cancelled'; transaction.notes = "Refunded";
\* transaction.save(); f: the save raises
RefundStatus(p, f) ==
    /\ pc[p] = "x_status"
    /\ IF f THEN RefundRaise(p)
       ELSE /\ txStatus' = [txStatus EXCEPT ![loc[p].sale] = "cancelled"]
            /\ txNotes' = [txNotes EXCEPT ![loc[p].sale] = "Refunded"]
            /\ Goto(p, "x_receipt")
            /\ UNCHANGED <<rowLock, balance, is_active, last_transaction, otps, nextOtpId, ledger,
                           stock, now, loc>>

\* member.refresh_from_db(); generate_refund_receipt_data(...); the response;
\* f: building the receipt raises
RefundReceipt(p, f) ==
    /\ pc[p] = "x_receipt"
    /\ IF f THEN RefundRaise(p)
       ELSE Return(p, loc[p], "Success") /\ UNCHANGED <<dbvars, now>>

\* ------------------------------------------------- api_update_transaction
\* an administrator submits status st for transaction s; a value outside
\* STATUS_CHOICES is ignored
UpdateTransaction(s, st) ==
    /\ txStatus' = IF st \in TxStatuses THEN [txStatus EXCEPT ![s] = st] ELSE txStatus
    /\ UNCHANGED <<rowLock, balance, is_active, last_transaction, otps, nextOtpId, ledger, txNotes,
                   stock, now, pc, loc, result>>

\* ------------------------------------------ MemberAdmin.delete_model
Deactivate(m) ==
    /\ is_active[m]
    /\ is_active' = [is_active EXCEPT ![m] = FALSE]
    /\ UNCHANGED <<rowLock, balance, last_transaction, otps, nextOtpId, ledger, txStatus, txNotes, stock,
                   now, pc, loc, result>>

\* ------------------------------------------- BalanceTransactionAdmin
\* the admin site's change form of a ledger entry: every field but
\* created_at is editable; the amount is saved as submitted
AdminChangeEntry(i, a) ==
    /\ i \in 1 .. Len(ledger)
    /\ ledger' = [ledger EXCEPT ![i].amount = a]
    /\ UNCHANGED <<rowLock, balance, is_active, last_transaction, otps, nextOtpId, txStatus,
                   txNotes, stock, now, pc, loc, result>>

\* the admin site's delete view and its 'delete selected' action
AdminDeleteEntry(i) ==
    /\ i \in 1 .. Len(ledger)
    /\ ledger' = SubSeq(ledger, 1, i - 1) \o SubSeq(ledger, i + 1, Len(ledger))
    /\ UNCHANGED <<rowLock, balance, is_active, last_transaction, otps, nextOtpId, txStatus,
                   txNotes, stock, now, pc, loc, result>>

\* ---------------------------------------------------------- specification
\* The transfer protocol: member A, logged in on two devices, issues transfer
\* requests to B and C and verifies codes; requests and verifications race.
Senders == {"A"}
TransferRfids == {"rB", "rC"}
TransferAmounts == {1, 2}

\* the transfer handlers run by the devices W for the logged-in members SS,
\* with recipients R, amounts AM, generated codes GC, submitted codes SC,
\* failure points FP of the atomic block and email outcomes DS
TransferNextBy(W, SS, R, AM, GC, SC, FP, DS) ==
    \/ \E p \in W, m \in SS, rfid \in R, a \in AM : RequestStart(p, m, rfid, a)
    \/ \E p \in W : RequestRecipient(p)
    \/ \E p \in W : RequestDelete(p)
    \/ \E p \in W, c \in GC, d \in DS : RequestCreate(p, c, d)
    \/ \E p \in W, m \in SS, c \in SC : VerifyStart(p, m, c)
    \/ \E p \in W : VerifyLookup(p)
    \/ \E p \in W : VerifyRecipient(p)
    \/ \E p \in W, f \in FP, d \in DS : VerifyAtomic(p, f, d)

\* the transfer handlers run by the devices W, with recipients R, amounts AM
\* and generated codes CS
TransferNext(W, R, AM, CS) ==
    TransferNextBy(W, Senders, R, AM, CS, CS, FailPoints, {"sent"})

NextTransfer == TransferNext(Workers, TransferRfids, TransferAmounts, Codes)

SpecTransfer == Init /\ [][NextTransfer]_vars

\* Two members, each on a device of their own, transfer one unit to each
\* other; the atomic block takes its row locks one write at a time.
OppositeSender == [p \in Workers |-> IF p = "w1" THEN "A" ELSE "C"]
OppositeRfid == [p \in Workers |-> IF p = "w1" THEN "rC" ELSE "rA"]
OppositeCode == [p \in Workers |-> IF p = "w1" THEN "c1" ELSE "c2"]

NextOpposite ==
    \/ \E p \in Workers : RequestStart(p, OppositeSender[p], OppositeRfid[p], 1)
    \/ \E p \in Workers : RequestRecipient(p)
    \/ \E p \in Workers : RequestDelete(p)
    \/ \E p \in Workers : RequestCreate(p, OppositeCode[p], "sent")
    \/ \E p \in Workers : VerifyStart(p, OppositeSender[p], OppositeCode[p])
    \/ \E p \in Workers : VerifyLookup(p)
    \/ \E p \in Workers : VerifyRecipient(p)
    \/ \E p \in Workers : VerifyWriteSender(p)
    \/ \E p \in Workers : VerifyWriteRecipient(p)
    \/ \E p \in Workers : VerifyCommit(p, "sent")
    \/ \E p \in Workers : VerifyDeadlockAbort(p)

SpecOpposite == Init /\ [][NextOpposite]_vars

\* Refill requests of every role, member id and amount on two devices,
\* while member C is removed.
NextRefill ==
    \/ \E p \in Workers, role \in Roles, mid \in MemberIds, raw \in RawAmounts :
           RefillStart(p, role, mid, raw)
    \/ \E p \in Workers : RefillAdd(p)
    \/ \E p \in Workers : RefillLedger(p)
    \/ Deactivate("C")

SpecRefill == Init /\ [][NextRefill]_vars

\* The transfer protocol with the clock running: time passes between and
\* inside the requests of two devices moving one unit to B.
NextExpiry ==
    \/ Tick
    \/ TransferNext(Workers, {"rB"}, {1}, Codes)

SpecExpiry == Init /\ [][NextExpiry]_vars

\* The ledger under every balance-changing request: transfers by A racing
\* refills of A by an admin and the refund of sale S1 (owned by B).
NextLedger ==
    \/ TransferNext(Workers, {"rB"}, {1}, {"c1"})
    \/ \E p \in Workers, m \in Senders : RefillStart(p, "admin", m, "1")
    \/ \E p \in Workers : RefillAdd(p)
    \/ \E p \in Workers : RefillLedger(p)
    \/ \E p \in Workers : RefundStart(p, "S1", "cashier")
    \/ \E p \in Workers : RefundAdd(p)
    \/ \E p \in Workers : RefundLedger(p, FALSE)
    \/ \E p \in Workers : RefundStock(p, FALSE)
    \/ \E p \in Workers : RefundStatus(p, FALSE)
    \/ \E p \in Workers : RefundReceipt(p, FALSE)

SpecLedger == Init /\ [][NextLedger]_vars

\* Retries: A asks for a transfer of 2 to B on one device (code c1) and of 1
\* on another (code c2) and submits the codes; an administrator using the
\* first device's handler refills A's balance, and the clock runs.
NextRetry ==
    \/ Tick
    \/ TransferNextBy({"w1"}, {"A"}, {"rB"}, {2}, {"c1"}, {"c1"}, {0}, {"sent"})
    \/ TransferNextBy({"w2"}, {"A"}, {"rB"}, {1}, {"c2"}, Codes, {0}, {"sent"})
    \/ RefillStart("w1", "admin", "A", "1")
    \/ RefillAdd("w1")
    \/ RefillLedger("w1")

SpecRetry == Init /\ [][NextRetry]_vars

\* Notifications: A, on two devices, asks for transfers of 1 to B and submits
\* codes; every email handed to the sink is sent, lost or not accepted.
NextNotify == TransferNextBy(Workers, {"A"}, {"rB"}, {1}, Codes, Codes, {0}, Dispatches)

SpecNotify == Init /\ [][NextNotify]_vars

\* Rejections: A and B (who has no contact address) ask for transfers to B,
\* to A and to an unknown card, of amounts 0, 1 and 2, and submit a code before
\* and after it is issued; the clock runs and an administrator removes member B.
NextReject ==
    \/ Tick
    \/ Deactivate("B")
    \/ \E p \in Workers : RequestStart(p, "B", "rA", 1)
    \/ TransferNextBy(Workers, {"A"}, {"rA", "rB", "rX"}, {0, 1, 2}, {"c1"}, {"c1"}, {0},
                       {"sent"})

SpecReject == Init /\ [][NextReject]_vars

\* Refunds: a cashier and member B, on two handlers, ask for refunds of the
\* sale S1 of member B and of the guest sale S2; any write after the credit
\* may fail.
RefundActors == {"cashier", "B"}

RefundNext(SS, AC, FS) ==
    \/ \E p \in Workers, s \in SS, actor \in AC : RefundStart(p, s, actor)
    \/ \E p \in Workers : RefundAdd(p)
    \/ \E p \in Workers, f \in FS : RefundLedger(p, f)
    \/ \E p \in Workers, f \in FS : RefundStock(p, f)
    \/ \E p \in Workers, f \in FS : RefundStatus(p, f)
    \/ \E p \in Workers, f \in FS : RefundReceipt(p, f)

NextRefund == RefundNext(PaidSales, RefundActors, BOOLEAN)

SpecRefund == Init /\ [][NextRefund]_vars

\* Refund requests for the one sale S1 of member B, by a cashier and by B, on
\* two handlers; no statement fails.
NextRefundRace == RefundNext({"S1"}, RefundActors, {FALSE})

SpecRefundRace == Init /\ [][NextRefundRace]_vars

\* Refunds of the sale S1 of member B by a cashier while an administrator
\* refills B's balance.
NextRefundRefill ==
    \/ RefundNext({"S1"}, {"cashier"}, {FALSE})
    \/ \E p \in Workers : RefillStart(p, "admin", "B", "1")
    \/ \E p \in Workers : RefillAdd(p)
    \/ \E p \in Workers : RefillLedger(p)

SpecRefundRefill == Init /\ [][NextRefundRefill]_vars

\* Refund requests for the sales S1 and S3 of member B, the second with a
\* total of zero, by a cashier and by B, on two handlers; no statement fails.
NextRefundFree == RefundNext({"S1", "S3"}, RefundActors, {FALSE})

SpecRefundFree == Init /\ [][NextRefundFree]_vars

\* Refills of A and B by an administrator on two devices, while the admin
\* site is used to remove member B and to open the ledger entries.
SubmittedAmounts == {1, 2}

NextAdminSite ==
    \/ \E p \in Workers, m \in {"A", "B"} : RefillStart(p, "admin", m, "1")
    \/ \E p \in Workers : RefillAdd(p)
    \/ \E p \in Workers : RefillLedger(p)
    \/ Deactivate("B")
    \/ \E i \in 1 .. MaxLedger, a \in SubmittedAmounts : AdminChangeEntry(i, a)
    \/ \E i \in 1 .. MaxLedger : AdminDeleteEntry(i)

SpecAdminSite == Init /\ [][NextAdminSite]_vars

\* Transfers of 1 from A to B on two devices, each code of Codes generated
\* and submitted; no statement of the atomic block fails by itself.
NextSupersede ==
    TransferNextBy(Workers, Senders, {"rB"}, {1}, Codes, Codes, {0}, {"sent"})

SpecSupersede == Init /\ [][NextSupersede]_vars

\* Refunds of S1 and S2 by a cashier while an administrator edits the status
\* of the transactions.
SubmittedStatuses == TxStatuses \cup {"void"}

NextRefundAdmin ==
    \/ RefundNext(PaidSales, {"cashier"}, {FALSE})
    \/ \E s \in PaidSales, st \in SubmittedStatuses : UpdateTransaction(s, st)

SpecRefundAdmin == Init /\ [][NextRefundAdmin]_vars

\* ------------------------------------------------------------ properties
Quiescent == \A p \in Workers : Free(p)

RECURSIVE SumBalances(_, _)
SumBalances(bal, S) ==
    IF S = {} THEN 0
    ELSE LET m == CHOOSE x \in S : TRUE IN bal[m] + SumBalances(bal, S \ {m})

\* sum of the amounts of the ledger entries of led
RECURSIVE SumAmounts(_)
SumAmounts(led) ==
    IF led = <<>> THEN 0 ELSE Head(led).amount + SumAmounts(Tail(led))

IsCredit(e) == e.notes \in {"refill", "refund"}

Deposits(m) ==
    LET K(e) == e.member = m /\ e.transaction_type = "deposit"
    IN  SumAmounts(SelectSeq(ledger, K))

Deductions(m) ==
    LET K(e) == e.member = m /\ e.transaction_type = "deduction"
    IN  SumAmounts(SelectSeq(ledger, K))

\* C1: money is never created or destroyed: once every request has returned,
\* the sum of all balances is the initial sum plus the refills and refunds made.
C1_MoneyConserved ==
    Quiescent =>
        SumBalances(balance, Members)
            = SumBalances(InitBalance, Members) + SumAmounts(SelectSeq(ledger, IsCredit))

\* C2: once every request has returned, each account's stored balance is its
\* starting balance plus its deposit entries minus its deduction entries.
C2_BalanceMatchesLedger ==
    Quiescent =>
        \A m \in Members : balance[m] = InitBalance[m] + Deposits(m) - Deductions(m)

\* C3: no balance is ever negative, and an execution whose intent amount
\* exceeds the sender's current stored balance moves nothing and does not succeed.
C3_NoOverdraftExecution ==
    [][/\ \A m \in Members : balance'[m] >= 0
       /\ \A p \in Workers :
            (/\ pc[p] = "v_atomic"
             /\ pc'[p] = "done"
             /\ loc[p].otp.amount > balance[loc[p].member])
            => (result'[p] # "Success" /\ UNCHANGED <<balance, ledger>>)]_vars

\* C4: two different intents of one sender whose amounts together exceed what
\* the sender ever held (each alone does not) are never both executed.
C4_NeverBothSucceed ==
    \A o1 \in otps, o2 \in otps :
        (/\ o1.id # o2.id
         /\ o1.member = o2.member
         /\ o1.amount <= InitBalance[o1.member]
         /\ o2.amount <= InitBalance[o1.member]
         /\ o1.amount + o2.amount > InitBalance[o1.member])
        => ~(o1.is_used /\ o2.is_used)

\* C5: when the atomic block of a transfer does not complete, the stored
\* intents, balances, ledger and last-activity stamps are what they were.
C5_AtomicRollback ==
    [][\A p \in Workers :
          (pc[p] = "v_atomic" /\ pc'[p] = "done" /\ result'[p] # "Success")
          => UNCHANGED <<otps, balance, ledger, last_transaction>>]_vars

\* a transfer failed inside its atomic block while the only intent ever
\* issued is still stored unused and nothing was written
C5_Witness ==
    \E p \in Workers :
        /\ result[p] = "ServerError"
        /\ nextOtpId = 2
        /\ \E o \in otps : ~o.is_used
        /\ ledger = <<>>
        /\ balance = InitBalance

\* C6: a successful transfer of a from X to Y lowers X's stored balance by a,
\* raises Y's by a, leaves the others alone and appends one deduction for X and
\* one deposit for Y whose snapshots are the balances just before and after.
C6_ExactTransfer ==
    [][\A p \in Workers :
          (pc[p] = "v_atomic" /\ pc'[p] = "done" /\ result'[p] = "Success")
          => LET x == loc[p].member
                 y == loc[p].recipient
                 a == loc[p].otp.amount
             IN  /\ balance'[x] = balance[x] - a
                 /\ balance'[y] = balance[y] + a
                 /\ \A m \in Members \ {x, y} : balance'[m] = balance[m]
                 /\ ledger' = ledger \o
                      << Entry(x, "deduction", a, balance[x], balance'[x], "transfer_out"),
                         Entry(y, "deposit", a, balance[y], balance'[y], "transfer_in") >>]_vars

\* the stored intents of member m carrying code c
Issued(m, c) == {o \in otps : o.member = m /\ o.otp_code = c}

\* C7 as stated: a verify call with the code of an executed intent is answered
\* OtpAlreadyUsed and moves nothing.
C7_AlreadyUsedError ==
    [][\A p \in Workers :
          (/\ pc[p] = "v_lookup"
           /\ pc'[p] # "v_lookup"
           /\ \E o \in Issued(loc[p].member, loc[p].code) : o.is_used)
          => (result'[p] = "OtpAlreadyUsed" /\ UNCHANGED <<balance, ledger>>)]_vars

\* C7 amended: a verify call with the code of an executed intent, when the
\* sender holds no unused intent with that code, is answered OtpNotFound and
\* changes no stored row.
C7_UsedCodeRejected ==
    [][\A p \in Workers :
          (/\ pc[p] = "v_lookup"
           /\ pc'[p] # "v_lookup"
           /\ \E o \in Issued(loc[p].member, loc[p].code) : o.is_used
           /\ \A o \in Issued(loc[p].member, loc[p].code) : o.is_used)
          => (pc'[p] = "done" /\ result'[p] = "OtpNotFound" /\ UNCHANGED dbvars)]_vars

\* a verify call was answered OtpNotFound for a code whose only intent is used
C7_Witness ==
    \E p \in Workers :
        /\ pc[p] = "done"
        /\ loc[p].op = "verify"
        /\ result[p] = "OtpNotFound"
        /\ Issued(loc[p].member, loc[p].code) # {}
        /\ \A o \in Issued(loc[p].member, loc[p].code) : o.is_used
        /\ Len(ledger) = 2

UsedIntents == {o \in otps : o.is_used}
TransferOuts == {i \in 1 .. Len(ledger) : ledger[i].notes = "transfer_out"}

\* C8: an intent is consumed once: there are never more transfer deductions
\* in the ledger than intents marked used.
C8_ConsumedOnce ==
    Cardinality(TransferOuts) <= Cardinality(UsedIntents)

Newest(m) ==
    CHOOSE o \in {x \in otps : x.member = m} :
        \A x \in otps : x.member = m => x.id <= o.id

\* C10: once a later intent has been issued to the sender, a verify call with
\* any other code than the latest intent's is answered OtpNotFound and moves
\* nothing: only the latest intent can be executed.
C10_SupersededCodeRejected ==
    [][\A p \in Workers :
          (/\ pc[p] = "v_lookup"
           /\ pc'[p] # "v_lookup"
           /\ \E o \in otps : o.member = loc[p].member
           /\ Newest(loc[p].member).otp_code # loc[p].code)
          => (result'[p] = "OtpNotFound" /\ UNCHANGED <<balance, ledger>>)]_vars

\* the unused intents stored for member m
Unused(m) == {o \in otps : o.member = m /\ ~o.is_used}

\* C11: in every state, also between the steps of overlapping transfer
\* requests of one sender, each sender has at most one unused intent.
C11_OneUnusedIntent ==
    \A m \in Members : Cardinality(Unused(m)) <= 1

\* handler p takes a step that starts (and maybe answers) a request of kind op
Starts(p, op) ==
    /\ Free(p)
    /\ <<pc[p], loc[p], result[p]>>' # <<pc[p], loc[p], result[p]>>
    /\ loc'[p].op = op

\* C12: a refund request for a transaction whose status is cancelled or
\* pending is answered NotRefundable and changes no balance, ledger entry,
\* stock counter, status or notes.
C12_NotRefundableRejected ==
    [][\A p \in Workers :
          (Starts(p, "refund") /\ txStatus[loc'[p].sale] \in {"cancelled", "pending"})
          => (pc'[p] = "done" /\ result'[p] = "NotRefundable" /\ UNCHANGED dbvars)]_vars

\* one refund request was rejected for a pending transaction and another for
\* a transaction cancelled by an earlier refund
C12_Witness ==
    \E p \in Workers, q \in Workers :
        /\ result[p] = "NotRefundable" /\ loc[p].op = "refund"
        /\ txStatus[loc[p].sale] = "pending"
        /\ result[q] = "NotRefundable" /\ loc[q].op = "refund"
        /\ txStatus[loc[q].sale] = "cancelled" /\ txNotes[loc[q].sale] = "Refunded"

\* the refund entries written for member m
RefundEntries(m) == {i \in 1 .. Len(ledger) : ledger[i].member = m /\ ledger[i].notes = "refund"}

\* C13: whatever the interleaving of the refund requests for a completed
\* transaction of a member, the member is credited with its total at most
\* once, at most one refund entry is written and each line item is restocked
\* at most once.
C13_RefundedOnce ==
    \A s \in {"S1"} :
        LET m == SaleMember[s] IN
        /\ balance[m] <= InitBalance[m] + SaleTotal[s]
        /\ Cardinality(RefundEntries(m)) <= 1
        /\ \A i \in 1 .. Len(SaleItems[s]) :
              stock[SaleItems[s][i].product]
                  <= InitStock[SaleItems[s][i].product] + SaleItems[s][i].quantity

OnlyRefund(p) == \A q \in Workers \ {p} : loc[q].op # "refund"

\* C15: a successful refund of a completed transaction with total T of a
\* member whose stored balance is b sets the balance to b + T, appends one
\* deposit entry of amount T with snapshots b and b + T, restocks every line
\* item by its quantity and sets the status to cancelled.
C15_RefundEffect ==
    [][\A p \in Workers :
          (OnlyRefund(p) /\ pc'[p] # pc[p])
          => LET m == loc[p].member
                 T == SaleTotal[loc[p].sale]
                 items == SaleItems[loc[p].sale]
             IN  /\ pc[p] = "x_add"
                    => /\ balance'[m] = balance[m] + T
                       /\ loc'[p].before = balance[m]
                 /\ (pc[p] = "x_ledger" /\ pc'[p] # "done")
                    => ledger' = Append(ledger, Entry(m, "deposit", T, loc[p].before,
                                                      loc[p].before + T, "refund"))
                 /\ (pc[p] = "x_stock" /\ pc'[p] # "done")
                    => /\ stock'[items[loc[p].idx].product]
                            = stock[items[loc[p].idx].product] + items[loc[p].idx].quantity
                       /\ pc'[p] = "x_status" <=> loc[p].idx = Len(items)
                 /\ (pc[p] = "x_receipt" /\ result'[p] = "Success")
                    => txStatus[loc[p].sale] = "cancelled"]_vars

\* handler p is inside a refund of a transaction without owning member
InGuestRefund(p) ==
    /\ pc[p] \in {"x_add", "x_ledger", "x_stock", "x_status", "x_receipt"}
    /\ SaleMember[loc[p].sale] = NoMember

Steps(p) == <<pc[p], loc[p], result[p]>>' # <<pc[p], loc[p], result[p]>>

\* C17: restocking is best-effort per line item: when the increment of one
\* item's counter fails, the refund goes on with the next line item, or with
\* the status save after the last one, and does not end there.
C17_RestockBestEffort ==
    [][\A p \in Workers :
          (pc[p] = "x_stock" /\ Steps(p) /\ stock' = stock)
          => /\ pc'[p] = (IF loc[p].idx = Len(SaleItems[loc[p].sale])
                          THEN "x_status" ELSE "x_stock")
             /\ loc'[p].idx = loc[p].idx + 1]_vars

\* the responses that reject a transfer request or a verify call
Rejections ==
    {"InvalidAmount", "InsufficientBalance", "MissingContact", "RecipientNotFound",
     "SelfTransfer", "OtpNotFound", "OtpExpired"}

\* the positions of a transfer request and of a verify call up to their last
\* validation
Validating == {"idle", "done", "r_recipient", "v_lookup", "v_recipient"}

\* C18: a rejected transfer request or verify call creates no partial state:
\* a call is rejected only out of its validations, and no step of a call up to
\* its last validation changes a balance, the ledger or any stored intent.
C18_RejectedNoPartialState ==
    [][\A p \in Workers :
          /\ (Steps(p) /\ result'[p] \in Rejections)
             => (pc[p] \in Validating /\ UNCHANGED <<balance, ledger, otps>>)
          /\ (Steps(p) /\ pc[p] \in Validating)
             => UNCHANGED <<balance, ledger, otps>>]_vars

\* a verify call was rejected because the recipient is no longer active and a
\* transfer request because the sender has no contact address, while the
\* sender's intent is stored unused and nothing was written
C18_Witness ==
    \E p \in Workers, q \in Workers :
        /\ result[p] = "RecipientNotFound" /\ loc[p].op = "verify"
        /\ Unused(loc[p].member) # {}
        /\ result[q] = "MissingContact" /\ loc[q].op = "request"
        /\ balance = InitBalance
        /\ ledger = <<>>

\* C19: a verify call answered InsufficientBalance leaves the intent stored
\* unused; and a verify call with the code of the sender's unused intent,
\* made before its expiry and reading a balance of at least its amount,
\* passes the validations and, with the recipient active and the intent still
\* stored, executes the transfer: the intent is marked used and the amount
\* is moved with two ledger entries.
C19_RetryAfterInsufficient ==
    [][\A p \in Workers :
          LET m == loc[p].member
              found == UnusedMatches(otps, m, loc[p].code)
          IN  /\ (pc[p] = "v_lookup" /\ result'[p] = "InsufficientBalance")
                 => /\ UNCHANGED <<otps, balance, ledger>>
                    /\ UnusedMatches(otps', m, loc[p].code) # {}
              /\ (/\ pc[p] = "v_lookup" /\ pc'[p] # "v_lookup"
                  /\ Cardinality(found) = 1
                  /\ \A o \in found : now <= o.expires_at /\ loc[p].mbal >= o.amount)
                 => (pc'[p] = "v_recipient" /\ loc'[p].otp \in found)
              /\ (/\ pc[p] = "v_recipient" /\ pc'[p] # "v_recipient"
                  /\ ResolveByRfid(loc[p].otp.recipient_rfid, is_active) \ {m} # {})
                 => pc'[p] = "v_atomic"
              /\ (/\ pc[p] = "v_atomic" /\ pc'[p] # "v_atomic"
                  /\ RowExists(otps, loc[p].otp))
                 => /\ result'[p] = "Success"
                    /\ \E o \in otps' : o.id = loc[p].otp.id /\ o.is_used
                    /\ Len(ledger') = Len(ledger) + 2
                    /\ balance'[loc[p].recipient] = loc[p].rbal + loc[p].otp.amount]_vars

\* a verify call with code c1 was answered InsufficientBalance, the balance
\* was then refilled, and a later verify call with c1 executed the transfer
\* of 2: the ledger holds the earlier transfer, the refill and this transfer
C19_Witness ==
    /\ result["w2"] = "InsufficientBalance" /\ loc["w2"].op = "verify"
    /\ loc["w2"].code = "c1"
    /\ result["w1"] = "Success" /\ loc["w1"].op = "verify" /\ loc["w1"].code = "c1"
    /\ \E o \in otps : o.otp_code = "c1" /\ o.is_used /\ o.amount = 2
    /\ Len(ledger) = 5
    /\ ledger[1].notes = "transfer_out" /\ ledger[1].amount = 1
    /\ ledger[3].notes = "refill"
    /\ ledger[4].notes = "transfer_out" /\ ledger[4].amount = 2
    /\ ledger[4].balance_before = 2

\* C20: a failure of the notification sink never changes the outcome:
\* whatever becomes of the OTP email, the transfer request that stored an
\* intent is answered success and the intent is valid; whatever becomes of the
\* completion emails, the verify call whose atomic block committed is
\* answered success.
C20_NotificationNeverFails ==
    [][\A p \in Workers :
          /\ (pc[p] = "r_create" /\ pc'[p] = "done")
             => /\ result'[p] = "Success"
                /\ \E o \in otps' \ otps : is_valid(o, now)
          /\ (pc[p] = "v_atomic" /\ pc'[p] = "done" /\ ledger' # ledger)
             => result'[p] = "Success"]_vars

\* C21: two transfers in opposite directions between the same pair of
\* accounts never reach a circular wait: no two handlers each hold one
\* account row while waiting for the row the other holds.
C21_NoDeadlock ==
    \A p, q \in Workers : ~CircularWait(p, q)

\* C22: the response of a successful transfer request does not depend on the
\* generated code: the body returned is the body the same request returns
\* with any other code, a message naming the sender's email address and an
\* expiry countdown of 600 seconds.
C22_ResponseHidesCode ==
    [][\A p \in Workers :
          (pc[p] = "r_create" /\ pc'[p] = "done" /\ result'[p] = "Success")
            => /\ \A c \in Codes :
                    loc'[p].body =
                        ResponseBody([loc[p] EXCEPT !.otp = NewOtp(nextOtpId, loc[p].member,
                                          loc[p].rfid, loc[p].amount, c, now)], "Success")
               /\ loc'[p].body =
                    [success |-> TRUE,
                     message |-> "OTP has been sent to your email ("
                                 \o EmailOf[loc[p].member] \o ")",
                     expires_in |-> 600]]_vars

\* two devices hold the answers to two successful requests of one member
\* whose generated codes differ, and the answers are the same
C22_Witness ==
    \E p, q \in Workers :
        /\ p # q
        /\ pc[p] = "done" /\ pc[q] = "done"
        /\ loc[p].op = "request" /\ loc[q].op = "request"
        /\ result[p] = "Success" /\ result[q] = "Success"
        /\ loc[p].member = loc[q].member
        /\ \E o1, o2 \in otps : o1.member = loc[p].member /\ o2.member = loc[p].member
                                 /\ o1.otp_code # o2.otp_code
        /\ loc[p].body = loc[q].body
        /\ loc[p].body.expires_in = ExpiresIn

\* C23: a refill request ends at once with a rejection that changes no
\* balance and no ledger entry, or goes on with an admin or staff actor, a
\* positive amount and an active member (so a request by another actor, with
\* an amount that is not positive or not a number, or for an unknown or
\* inactive member is rejected); an accepted refill of a adds a to the balance
\* of that member only, and then appends one deposit entry of amount a for
\* that member and answers success.
C23_RefillChecked ==
    [][\A p \in Workers :
          /\ (Starts(p, "refill") /\ pc'[p] = "done")
                => /\ result'[p] \in {"PermissionDenied", "InvalidAmount", "AccountNotFound"}
                   /\ UNCHANGED <<balance, ledger>>
          /\ (Starts(p, "refill") /\ pc'[p] # "done")
                => /\ loc'[p].role \in {"admin", "staff"}
                   /\ loc'[p].amount > 0
                   /\ loc'[p].member \in Members /\ is_active[loc'[p].member]
                   /\ UNCHANGED <<balance, ledger>>
          /\ (pc[p] = "f_add" /\ Steps(p))
                => /\ balance' = [balance EXCEPT ![loc[p].member] = @ + loc[p].amount]
                   /\ loc'[p].amount = loc[p].amount /\ loc'[p].member = loc[p].member
                   /\ UNCHANGED ledger
          /\ (pc[p] = "f_ledger" /\ Steps(p))
                => /\ result'[p] = "Success"
                   /\ Len(ledger') = Len(ledger) + 1
                   /\ SubSeq(ledger', 1, Len(ledger)) = ledger
                   /\ LET e == ledger'[Len(ledger')]
                      IN  /\ e.member = loc[p].member
                          /\ e.transaction_type = "deposit"
                          /\ e.amount = loc[p].amount
                   /\ UNCHANGED balance]_vars

\* one device holds the answer to an accepted refill, the other a rejection,
\* and the ledger has the one entry of the accepted refill
C23_Witness ==
    \E p, q \in Workers :
        /\ loc[p].op = "refill" /\ pc[p] = "done" /\ result[p] = "Success"
        /\ loc[q].op = "refill" /\ pc[q] = "done" /\ result[q] = "AccountNotFound"
        /\ loc[q].member = "C"
        /\ Len(ledger) = 1 /\ ledger[1].member = loc[p].member
        /\ balance[loc[p].member] = InitBalance[loc[p].member] + ledger[1].amount

\* C24: every ledger entry carries snapshots that agree with its amount:
\* balance_after is balance_before plus the amount for a deposit and
\* balance_before minus the amount for a deduction.
C24_EntryArithmetic ==
    \A i \in 1 .. Len(ledger) :
        LET e == ledger[i] IN
        e.balance_after = IF e.transaction_type = "deposit"
                          THEN e.balance_before + e.amount
                          ELSE e.balance_before - e.amount

\* C25: every ledger entry has an amount above zero.
C25_PositiveAmounts ==
    \A i \in 1 .. Len(ledger) : ledger[i].amount > 0

\* C26: the ledger is append-only: every step leaves the entries already
\* written in place and unchanged, and a step that removes a member changes
\* the active flag only, no ledger entry and no balance.
C26_AppendOnly ==
    [][/\ Len(ledger') >= Len(ledger)
       /\ SubSeq(ledger', 1, Len(ledger)) = ledger
       /\ (is_active' # is_active) => UNCHANGED <<balance, ledger>>]_vars

\* the entries of account m, oldest first
RECURSIVE EntriesOf(_, _)
EntriesOf(led, m) ==
    IF led = <<>> THEN <<>>
    ELSE IF Head(led).member = m THEN <<Head(led)>> \o EntriesOf(Tail(led), m)
    ELSE EntriesOf(Tail(led), m)

\* C27: the ledger of each account is continuous: the balance_before of
\* its first entry is the balance the account started with, and the
\* balance_before of every later entry is the balance_after of the entry
\* written before it for that account.
C27_LedgerContinuity ==
    \A m \in Members :
        LET es == EntriesOf(ledger, m) IN
        \A i \in 1 .. Len(es) :
            es[i].balance_before = IF i = 1 THEN InitBalance[m] ELSE es[i - 1].balance_after

\* C28: cancelled is terminal: no step takes a transaction that a refund
\* has cancelled to another status.
C28_CancelledTerminal ==
    [][\A s \in Sales :
          (txStatus[s] = "cancelled" /\ txNotes[s] = "Refunded")
            => txStatus'[s] = "cancelled"]_vars

\* the used intents of member m for amount a, and the transfer entries
\* written for them
UsedBy(m, a) == {o \in UsedIntents : o.member = m /\ o.amount = a}
OutsOf(m, a) == {i \in TransferOuts : ledger[i].member = m /\ ledger[i].amount = a}
TransferIns == {i \in 1 .. Len(ledger) : ledger[i].notes = "transfer_in"}

\* C29: used intents and executed transfers correspond one to one: for
\* every member and amount there are as many used intents of that member for
\* that amount as deduction entries of that member with that amount, and
\* every deduction entry is followed by its deposit entry of the same amount.
C29_IntentsMatchTransfers ==
    /\ \A m \in Members, a \in 0 .. MaxBalance :
          Cardinality(UsedBy(m, a)) = Cardinality(OutsOf(m, a))
    /\ \A i \in TransferOuts :
          /\ i + 1 \in TransferIns
          /\ ledger[i + 1].amount = ledger[i].amount

\* C30: a superseded intent never executes, also when the supersession
\* races with the verification: a verify call that reaches its atomic block
\* holding an intent whose row a later request has deleted is answered with
\* an error and changes no balance, no ledger entry and no stored intent, so
\* the intent that replaced it stays unused.
C30_SupersededNeverExecutes ==
    [][\A p \in Workers :
          (pc[p] = "v_atomic" /\ Steps(p) /\ \A o \in otps : o.id # loc[p].otp.id)
            => /\ result'[p] = "ServerError"
               /\ UNCHANGED <<balance, ledger, otps, last_transaction>>]_vars

\* one device was refused the execution of an intent that the other device
\* replaced after the lookup, and the other device has then executed the
\* replacing intent: the only transfer in the ledger
C30_Witness ==
    \E p, q \in Workers :
        /\ loc[p].op = "verify" /\ pc[p] = "done" /\ result[p] = "ServerError"
        /\ loc[q].op = "verify" /\ pc[q] = "done" /\ result[q] = "Success"
        /\ loc[p].member = loc[q].member
        /\ loc[p].code # loc[q].code
        /\ \A o \in otps : o.otp_code # loc[p].code
        /\ \E o \in UsedIntents : o.otp_code = loc[q].code
        /\ Len(ledger) = 2
        /\ balance["A"] = InitBalance["A"] - 1

====
